---- MODULE Spec2Model ----
(***************************************************************************)
(* Logging delivery pipeline with local fallback (LoggingService,          *)
(* HttpRemoteLogProvider, FileLocalLogProvider, LogDataBuilder).           *)
(*                                                                         *)
(* Each sendLog call is a process.  JavaScript runs a call from one await  *)
(* to the next without interleaving, so an action is one such segment: the *)
(* completion of the I/O operation the call waits on, followed by the code *)
(* that runs until the next I/O operation is issued.                       *)
(***************************************************************************)
EXTENDS Integers, Sequences, FiniteSets, TLC

\* ------------------------------------------------------------------ bounds

\* Concurrent sendLog calls.
NumCalls == 2

\* Last value of the wall clock read by new Date().
MaxClock == 1

Calls == 1..NumCalls

\* --------------------------------------------------------------- constants

\* HttpRemoteLogProvider.getConfig: maxRetries: 3.
maxRetries == 3

\* The collector fails the first n POSTs of a record and answers 2xx from
\* POST n+1 on; maxRetries + 1 failures outlast every retry.
RemoteFailureScripts == 0..(maxRetries + 1)

Messages == {"", "m1"}

\* The run-time values of sendLog's `type` argument: two members of the
\* enum, a string that is no key of it ('WARNING', which ErrorsInterceptor
\* passes), and a key the enum object inherits from Object.prototype.
Types == {"INFO", "ERROR", "WARNING", "constructor"}

\* The optional `data` argument: absent (<<>>) or one object.
DataArgs == {<<>>, <<{<<"code", 28>>}>>}

EmptyObject == {}

RemoteCauses == {"ECONNREFUSED"}

NL == [kind |-> "nl"]

\* ------------------------------------------------------------ pure helpers

\* JavaScript truthiness of the string-valued model values.
Truthy(v) == v \notin {"undefined", ""}

\* enum LogSeverity: the own keys of the compiled enum object.
LogSeverity == {"INFO", "WARN", "ERROR", "DEBUG"}

\* LogSeverity[type]: a property read on a plain object.  An own key yields
\* the enum value, a key inherited from Object.prototype yields that
\* inherited member (a function, hence truthy), any other key undefined.
ObjectPrototypeKeys == {"constructor", "toString", "hasOwnProperty", "valueOf"}

LogSeverityLookup(type) ==
    IF type \in LogSeverity THEN type
    ELSE IF type \in ObjectPrototypeKeys THEN "[Function]"
    ELSE "undefined"

\* new Error(message): the message is the sequence of the template's parts;
\* no `cause` option is ever passed.
Error(parts) == [message |-> parts, cause |-> <<>>]

\* Whether an error carries `cause`: in its message or in its cause chain.
RECURSIVE Carries(_, _)
Carries(err, cause) ==
    \/ \E i \in 1..Len(err.message) : err.message[i] = cause
    \/ /\ err.cause # <<>>
       /\ Carries(err.cause[1], cause)

\* Date.prototype.toISOString of the epoch-millisecond clock value.
toISOString(t) == "1970-01-01T00:00:00.00" \o ToString(t) \o "Z"

\* An environment maps each variable to <<>> (not set) or <<value>>.
\* ConfigService.get(key, defaultValue): the default only when not set.
get(e, key, defaultValue) ==
    IF e[key] = <<>> THEN defaultValue ELSE e[key][1]

\* ConfigurationFactory.createLoggingConfig, read from the environment.
createLoggingConfig(e) ==
    [logServiceUrl |-> get(e, "LOG_SERVICE_URL", "http://localhost:3000"),
     isDevEnvironment |-> (get(e, "APP_DEV", "false") = "true"),
     serviceName |-> get(e, "SERVICE_NAME", "module-service"),
     maxRetries |-> get(e, "LOG_MAX_RETRIES", 3)]

\* HttpRemoteLogProvider.getConfig: process.env.LOG_SERVICE_URL || default,
\* and the literals.
getConfig(e) ==
    [logServiceUrl |-> IF e["LOG_SERVICE_URL"] # <<>> /\ Truthy(e["LOG_SERVICE_URL"][1])
                       THEN e["LOG_SERVICE_URL"][1]
                       ELSE "http://localhost:3000",
     maxRetries |-> maxRetries,
     isDevEnvironment |-> (e["APP_DEV"] = <<"true">>),
     serviceName |-> "module-service"]

\* LoggingService.buildSourceName.
buildSourceName(cfg) ==
    cfg.serviceName \o (IF cfg.isDevEnvironment THEN "_dev" ELSE "")

\* LogDataBuilder.build: <<>> when it throws, else the one record.
buildThrows(severity, message) == ~Truthy(severity) \/ ~Truthy(message)

\* Fault variant: build copies the source as it was set.
buildWithoutSourceDefault(severity, message, data, source, now) ==
    [severity |-> severity,
     message |-> message,
     data |-> IF data = <<>> THEN EmptyObject ELSE data[1],
     timestamp |-> now,
     source |-> source]

build(severity, message, data, source, now) ==
    [severity |-> severity,
     message |-> message,
     data |-> IF data = <<>> THEN EmptyObject ELSE data[1],
     timestamp |-> now,
     source |-> IF Truthy(source) THEN source ELSE "unknown"]

\* JSON.stringify of {...logData, timestamp: ISO string}: a property whose
\* value is a function is left out.
stringify(logData) ==
    LET full == [severity |-> logData.severity,
                 message |-> logData.message,
                 data |-> logData.data,
                 timestamp |-> toISOString(logData.timestamp),
                 source |-> logData.source]
    IN IF logData.severity = "[Function]"
       THEN [k \in (DOMAIN full) \ {"severity"} |-> full[k]]
       ELSE full

\* Fault variant: the entry without its terminating newline.
formatLogEntryNoNewline(logData) ==
    <<[kind |-> "json", value |-> stringify(logData)]>>

\* FileLocalLogProvider.formatLogEntry: the JSON text and a newline.
formatLogEntry(logData) ==
    <<[kind |-> "json", value |-> stringify(logData)], NL>>

\* Fault variant: mkdir without { recursive: true }.
mkdirOptionsNotRecursive == [recursive |-> FALSE]

\* fs.promises.mkdir(dir, options) on a directory that exists or not.
mkdirOptions == [recursive |-> TRUE]

mkdir(exists, options) ==
    IF exists /\ ~options.recursive THEN "EEXIST" ELSE "ok"

\* Fault variant: fs.promises.writeFile, which replaces the content.
writeFile(content, entry) == entry

\* fs.promises.appendFile(path, entry): the entry goes after the content.
appendFile(content, entry) == content \o entry

\* Fault variant: appendFile called without await.
AwaitedExceptAppend(op) == op # "append"

\* Whether the caller awaits the promise of an I/O operation.
Awaited(op) == TRUE

\* ------------------------------------------------------------------- state

VARIABLES
    clock,      \* the wall clock new Date() reads
    appDev,     \* process.env.APP_DEV
    dirExists,  \* whether <cwd>/logs exists
    file,       \* logs/fallback-logs.json: JSON texts and newlines
    env,        \* process.env: LOG_SERVICE_URL and LOG_MAX_RETRIES
    calls,      \* per sendLog call: its position, locals and outcome
    requests    \* per HTTP request: what its interceptor was given and did

vars == <<clock, appDev, env, dirExists, file, calls, requests>>

\* The environment with neither variable set.
UnsetEnv == [LOG_SERVICE_URL |-> <<>>, LOG_MAX_RETRIES |-> <<>>]

\* process.env as the configuration readers see it.
ProcessEnv ==
    [APP_DEV |-> <<appDev>>,
     SERVICE_NAME |-> <<>>,
     LOG_SERVICE_URL |-> env.LOG_SERVICE_URL,
     LOG_MAX_RETRIES |-> env.LOG_MAX_RETRIES]

\* A request no interceptor has handled yet.
IdleRequest ==
    [pc |-> "idle",       \* idle, emitted (a value went through), thrown
     path |-> "",         \* request.originalUrl
     err |-> <<>>,        \* what the handler threw
     emitted |-> <<>>,    \* the value passed on downstream
     traceId |-> "",      \* the uuid drawn for this error
     sendLog |-> <<>>,    \* loggingService.sendLog invocations: arguments
     client |-> <<>>,     \* the error rethrown towards the client
     data |-> <<>>,       \* what the handler returned
     given |-> <<>>,      \* response.statusCode, config and time it arrived with
     statusCode |-> 200,  \* response.statusCode
     raised |-> <<>>,     \* what transformResponse threw
     again |-> <<>>,      \* outcome of a second transformResponse on the value
     log |-> <<>>]        \* logResponse output

IdleCall ==
    [pc |-> "idle",          \* idle, awaitPost, awaitAccess, awaitMkdir,
                             \* awaitAppend, done
     message |-> "", type |-> "", data |-> <<>>,
     remoteFails |-> 0,      \* the collector's script for this record
     logData |-> <<>>,       \* the built record, once built
     posts |-> 0,            \* HTTP POSTs issued
     endpoint |-> "",        \* the URL they were sent to
     promise |-> "none",     \* the promise axios.post returned
     promiseErr |-> "none",  \* its rejection reason
     retriesLeft |-> 0,      \* resubscriptions retry() still allows
     resubscribed |-> 0,     \* resubscriptions retry() made
     io |-> "none",          \* the I/O operation in flight
     trace |-> <<>>,         \* provider calls made by processLog, in order
     handed |-> <<>>,        \* the record each of them was given
     remoteErr |-> <<>>,     \* what remoteLogProvider.sendLog threw
     localErr |-> <<>>,      \* what localLogProvider.saveLog threw
     result |-> "none",      \* none, pending, returned, raised
     thrown |-> <<>>,        \* the error sendLog rejected with
     logs |-> <<>>,          \* Logger output of this call
     mkdir |-> "none",       \* its mkdir: none, created, existed
     appended |-> 0]         \* entries this call appended to the file

Init ==
    /\ clock = 0
    /\ appDev \in {"true", "false"}
    /\ env = UnsetEnv
    /\ dirExists \in BOOLEAN
    /\ file = <<>>
    /\ calls = [c \in Calls |-> IdleCall]
    /\ requests = [r \in Calls |-> IdleRequest]

\* ------------------------------------------------ LoggingService.processLog

Log(k, level, parts) ==
    [k EXCEPT !.logs = Append(@, [level |-> level, message |-> parts])]

Return(k) == [k EXCEPT !.pc = "done", !.result = "returned"]

Throw(k, err) == [k EXCEPT !.pc = "done", !.result = "raised", !.thrown = <<err>>]

\* Fault variant: the thrown error's message embeds both provider errors.
LoggingUnavailableWithCauses(remoteError, localError) ==
    Error(<<"Sistema de logging no disponible">>
            \o remoteError[1].message \o localError[1].message)

\* The error processLog throws when both providers failed.
LoggingUnavailable(remoteError, localError) ==
    Error(<<"Sistema de logging no disponible">>)

\* Fault variant: the local save sits in a finally block.
processLog_alwaysLocal(stage, outcome) ==
    CASE stage = "remote" -> "local"
      [] stage = "local" /\ outcome = "ok" -> "return"
      [] stage = "local" /\ outcome = "error" -> "throw"

\* Fault variant: a failed local save goes back to the remote provider.
processLog_retryRemote(stage, outcome) ==
    CASE stage = "remote" /\ outcome = "ok" -> "return"
      [] stage = "remote" /\ outcome = "error" -> "local"
      [] stage = "local" /\ outcome = "ok" -> "return"
      [] stage = "local" /\ outcome = "error" -> "remote"

\* Fault variant: the inner catch block logs and does not throw.
processLog_swallowLocal(stage, outcome) ==
    CASE stage = "remote" /\ outcome = "ok" -> "return"
      [] stage = "remote" /\ outcome = "error" -> "local"
      [] stage = "local" -> "return"

\* What processLog does after a provider call settled: the try/catch nesting.
processLog_next(stage, outcome) ==
    CASE stage = "remote" /\ outcome = "ok" -> "return"
      [] stage = "remote" /\ outcome = "error" -> "local"
      [] stage = "local" /\ outcome = "ok" -> "return"
      [] stage = "local" /\ outcome = "error" -> "throw"

\* HttpRemoteLogProvider.sendLog up to its await: axios.post is called (the
\* request is issued and its promise created), from() wraps that promise and
\* firstValueFrom subscribes.
StartRemote(k) ==
    [k EXCEPT !.trace = Append(@, "remote"),
              !.handed = Append(@, k.logData[1]),
              !.posts = @ + 1,
              !.endpoint = getConfig(ProcessEnv).logServiceUrl,
              !.promise = "pending",
              !.promiseErr = "none",
              !.io = "post",
              !.retriesLeft = getConfig(ProcessEnv).maxRetries,
              !.resubscribed = 0,
              !.pc = "awaitPost"]

\* Fault variant: the fallback stamps the record again.
StartLocalRestamped(k) ==
    [k EXCEPT !.trace = Append(@, "local"),
              !.logData = <<[k.logData[1] EXCEPT !.timestamp = clock]>>,
              !.handed = Append(@, [k.logData[1] EXCEPT !.timestamp = clock]),
              !.io = "access", !.pc = "awaitAccess"]

\* FileLocalLogProvider.saveLog up to its first await: fs.promises.access.
StartLocal(k) ==
    [k EXCEPT !.trace = Append(@, "local"),
              !.handed = Append(@, k.logData[1]),
              !.io = "access", !.pc = "awaitAccess"]

\* processLog resumed after `stage` settled with `outcome`.
Continue(k, stage, outcome) ==
    LET logged ==
            CASE stage = "remote" /\ outcome = "ok" ->
                    Log(k, "debug", <<"Log enviado remotamente", k.message>>)
              [] stage = "remote" /\ outcome = "error" ->
                    Log(k, "warn",
                        <<"Error enviando log remoto, guardando localmente">>
                            \o k.remoteErr[1].message)
              [] stage = "local" /\ outcome = "ok" -> k
              [] stage = "local" /\ outcome = "error" ->
                    Log(k, "error",
                        <<"Error critico: no se pudo guardar log ni remoto ni local">>
                            \o k.localErr[1].message)
        next == processLog_next(stage, outcome)
    IN CASE next = "return" -> Return(logged)
         [] next = "local" -> StartLocal(logged)
         [] next = "remote" -> StartRemote(logged)
         [] next = "throw" ->
                Throw(logged, LoggingUnavailable(logged.remoteErr, logged.localErr))

\* Fault variant: saveLog's catch block logs and does not throw.
SaveLogSwallowed(k, cause) ==
    Continue(Log(k, "error", <<"Error guardando log local", cause>>),
             "local", "ok")

\* saveLog's catch block: log, then throw the wrapped error.
SaveLogFailed(k, cause) ==
    LET err == Error(<<"No se pudo guardar el log localmente", cause>>)
        k1 == Log([k EXCEPT !.localErr = <<err>>], "error",
                  <<"Error guardando log local", cause>>)
    IN Continue(k1, "local", "error")

\* saveLog after ensureLogDirectoryExists: appendFile is issued; an awaited
\* call suspends saveLog, one that is not awaited lets it run to its end.
IssueAppend(k) ==
    IF Awaited("append")
    THEN [k EXCEPT !.io = "append", !.pc = "awaitAppend"]
    ELSE [Continue(k, "local", "ok") EXCEPT !.io = "append"]

\* -------------------------------------------------------------- the actions

Tick ==
    /\ clock < MaxClock
    /\ clock' = clock + 1
    /\ UNCHANGED <<appDev, env, dirExists, file, calls, requests>>

\* LoggingService.sendLog(message, type, data) up to its first await, for
\* arguments and a collector script drawn from the given sets.
SendLog(c, messages, types, datas, scripts) ==
    /\ calls[c].pc = "idle"
    /\ \E message \in messages, type \in types, data \in datas, fails \in scripts :
        LET severity == LogSeverityLookup(type)
            k0 == [calls[c] EXCEPT !.message = message, !.type = type,
                                   !.data = data, !.result = "pending"]
            source == buildSourceName(createLoggingConfig(ProcessEnv))
        IN calls' = [calls EXCEPT ![c] =
            IF ~Truthy(severity)
            THEN Throw(k0, Error(<<"Tipo de log invalido", type>>))
            ELSE IF buildThrows(severity, message)
            THEN Throw(k0, Error(<<"Severity y message son campos obligatorios">>))
            ELSE StartRemote([k0 EXCEPT
                    !.logData = <<build(severity, message, data, source, clock)>>,
                    !.remoteFails = fails])]
    /\ UNCHANGED <<clock, appDev, env, dirExists, file, requests>>

\* Fault variant: the source is defer(() => axios.post(...)), so that every
\* resubscription issues a new request.
ResubscribeDeferred(k) ==
    [k EXCEPT !.posts = @ + 1, !.promise = "pending", !.promiseErr = "none",
              !.io = "post"]

\* retry(): a resubscription to the source observable.  The source is
\* from(axios.post(...)), built once around the promise of the one request
\* already made, so subscribing again observes that same promise.
Resubscribe(k) == k

\* retry(maxRetries) on a source that errored: resubscribe while
\* resubscriptions are left and the source errors at once.
RECURSIVE RetryLoop(_)
RetryLoop(k) ==
    IF k.promise = "rejected" /\ k.retriesLeft > 0
    THEN RetryLoop(Resubscribe([k EXCEPT !.retriesLeft = @ - 1,
                                         !.resubscribed = @ + 1]))
    ELSE k

\* The collector answers the POST in flight (a failure for the first
\* remoteFails POSTs of the record, 2xx afterwards) and the pipe runs: retry,
\* then catchError and the outer catch, or firstValueFrom resolving; then
\* processLog goes on.
RemoteSettled(c) ==
    /\ calls[c].io = "post"
    /\ calls[c].promise = "pending"
    /\ \E cause \in RemoteCauses :
        LET settled ==
                IF calls[c].posts <= calls[c].remoteFails
                THEN [calls[c] EXCEPT !.io = "none", !.promise = "rejected",
                                      !.promiseErr = cause]
                ELSE [calls[c] EXCEPT !.io = "none", !.promise = "fulfilled"]
            k == RetryLoop(settled)
            err == Error(<<"Fallo al enviar log remoto",
                           "Error enviando log remoto", k.promiseErr>>)
        IN calls' = [calls EXCEPT ![c] =
            CASE k.promise = "pending" -> k
              [] k.promise = "fulfilled" -> Continue(k, "remote", "ok")
              [] k.promise = "rejected" ->
                    Continue(Log([k EXCEPT !.remoteErr = <<err>>], "error",
                                 <<"Error en peticion HTTP", k.promiseErr>>),
                             "remote", "error")]
    /\ UNCHANGED <<clock, appDev, env, dirExists, file, requests>>

\* ensureLogDirectoryExists: fs.promises.access settles; on rejection the
\* catch block issues mkdir, otherwise saveLog goes on to appendFile.
AccessSettled(c) ==
    /\ calls[c].io = "access"
    /\ calls' = [calls EXCEPT ![c] =
            IF dirExists
            THEN IssueAppend(@)
            ELSE [@ EXCEPT !.io = "mkdir", !.pc = "awaitMkdir"]]
    /\ UNCHANGED <<clock, appDev, env, dirExists, file, requests>>

\* fs.promises.mkdir settles: the platform may refuse it (EACCES).
MkdirSettled(c) ==
    /\ calls[c].io = "mkdir"
    /\ \E fault \in {"ok", "EACCES"} :
        LET outcome == IF fault # "ok" THEN fault ELSE mkdir(dirExists, mkdirOptions)
        IN IF outcome = "ok"
           THEN /\ dirExists' = TRUE
                /\ calls' = [calls EXCEPT ![c] = IssueAppend(
                        [@ EXCEPT !.mkdir = IF dirExists THEN "existed"
                                                         ELSE "created"])]
           ELSE /\ dirExists' = dirExists
                /\ calls' = [calls EXCEPT ![c] =
                        SaveLogFailed([@ EXCEPT !.io = "none"], outcome)]
    /\ UNCHANGED <<clock, appDev, env, file, requests>>

\* fs.promises.appendFile settles: one write of the whole entry at the end
\* of the file, or a refusal by the platform (ENOSPC) that writes nothing.
AppendSettled(c) ==
    /\ calls[c].io = "append"
    /\ \E fault \in {"ok", "ENOSPC"} :
        LET outcome == IF ~dirExists THEN "ENOENT" ELSE fault
            k == [calls[c] EXCEPT !.io = "none"]
        IN IF outcome = "ok"
           THEN /\ file' = appendFile(file, formatLogEntry(k.logData[1]))
                /\ calls' = [calls EXCEPT ![c] =
                        LET k1 == [k EXCEPT !.appended = @ + 1]
                        IN IF k.pc = "awaitAppend"
                           THEN Continue(
                                    Log(k1, "log", <<"Log guardado localmente">>),
                                    "local", "ok")
                           ELSE k1]
           ELSE /\ file' = file
                /\ calls' = [calls EXCEPT ![c] =
                        IF k.pc = "awaitAppend" THEN SaveLogFailed(k, outcome) ELSE k]
    /\ UNCHANGED <<clock, appDev, env, dirExists, requests>>

Settle(c) ==
    \/ RemoteSettled(c)
    \/ AccessSettled(c)
    \/ MkdirSettled(c)
    \/ AppendSettled(c)

\* Concurrent sendLog calls on well-formed arguments; the collector accepts
\* a record at once or fails it throughout.
Next ==
    \/ Tick
    \/ \E c \in Calls :
        SendLog(c, {"m1"}, {"ERROR"}, DataArgs, {0, maxRetries + 1})
    \/ \E c \in Calls : Settle(c)

Spec == Init /\ [][Next]_vars

\* One sendLog call, on every argument and every collector script.
NoCallYet == \A c \in Calls : calls[c].pc = "idle"

NextInputs ==
    \/ Tick
    \/ \E c \in Calls :
        NoCallYet /\ SendLog(c, Messages, Types, DataArgs, RemoteFailureScripts)
    \/ \E c \in Calls : Settle(c)

SpecInputs == Init /\ [][NextInputs]_vars

\* ------------------------------------------------------- claim vocabulary

Done(c) == calls[c].pc = "done"

\* The arguments make a valid record: a recognized severity, a message.
ValidInput(c) == calls[c].type \in LogSeverity /\ calls[c].message # ""

\* The call passed validation and handed a record to the remote provider.
Submitted(c) == calls[c].logData # <<>>

RemoteFailed(c) == calls[c].remoteErr # <<>>

RemoteSucceeded(c) ==
    Submitted(c) /\ calls[c].promise = "fulfilled" /\ ~RemoteFailed(c)

LocalCalled(c) == \E i \in 1..Len(calls[c].trace) : calls[c].trace[i] = "local"

LocalFailed(c) == calls[c].localErr # <<>>

\* The underlying failures: what the collector and the file system reported.
RemoteCause(c) == calls[c].promiseErr

LocalCause(c) == calls[c].localErr[1].message[Len(calls[c].localErr[1].message)]

Logged(c, level, cause) ==
    \E i \in 1..Len(calls[c].logs) :
        /\ calls[c].logs[i].level = level
        /\ \E j \in 1..Len(calls[c].logs[i].message) :
               calls[c].logs[i].message[j] = cause

\* The lines of the file: the runs of tokens each newline ends, and what
\* follows the last newline.
RECURSIVE Lines(_)
Lines(f) ==
    IF \A i \in 1..Len(f) : f[i].kind # "nl"
    THEN <<>>
    ELSE LET i == CHOOSE n \in 1..Len(f) :
                    /\ f[n].kind = "nl"
                    /\ \A m \in 1..(n - 1) : f[m].kind # "nl"
         IN <<SubSeq(f, 1, i - 1)>> \o Lines(SubSeq(f, i + 1, Len(f)))

RECURSIVE Unterminated(_)
Unterminated(f) ==
    IF \A i \in 1..Len(f) : f[i].kind # "nl"
    THEN f
    ELSE LET i == CHOOSE n \in 1..Len(f) :
                    /\ f[n].kind = "nl"
                    /\ \A m \in 1..(n - 1) : f[m].kind # "nl"
         IN Unterminated(SubSeq(f, i + 1, Len(f)))

\* The serialized form of the record a call submitted, from its arguments.
ExpectedJson(c) ==
    [severity |-> calls[c].type,
     message |-> calls[c].message,
     data |-> IF calls[c].data = <<>> THEN {} ELSE calls[c].data[1],
     source |-> IF appDev = "true" THEN "module-service_dev" ELSE "module-service",
     timestamp |-> toISOString(calls[c].logData[1].timestamp)]

ExpectedLine(c) == <<[kind |-> "json", value |-> ExpectedJson(c)]>>

\* ------------------------------------------------------------------ claims

BothFailed(c) == ValidInput(c) /\ Done(c) /\ RemoteFailed(c) /\ LocalFailed(c)

C2_RetryReachesCollector ==
    \A c \in Calls :
        (Done(c) /\ Submitted(c) /\ calls[c].remoteFails \in 1..(maxRetries - 1)) =>
            /\ calls[c].posts = calls[c].remoteFails + 1
            /\ RemoteSucceeded(c)
            /\ ~LocalCalled(c)

\* C3: the remote provider never makes more than maxRetries delivery
\* attempts (POSTs) for one record; when the collector fails maxRetries
\* times and would accept attempt maxRetries + 1, that attempt is not made
\* and processLog falls back to the local provider.
C3_AttemptsBounded ==
    \A c \in Calls :
        /\ calls[c].posts <= maxRetries
        /\ (Done(c) /\ Submitted(c) /\ calls[c].remoteFails = maxRetries) =>
               /\ RemoteFailed(c)
               /\ LocalCalled(c)

C3_Witness ==
    \E c \in Calls :
        /\ Done(c) /\ Submitted(c)
        /\ calls[c].remoteFails = maxRetries
        /\ calls[c].resubscribed = maxRetries
        /\ LocalCalled(c)

Degraded(c) == Done(c) /\ RemoteFailed(c) /\ LocalCalled(c) /\ ~LocalFailed(c)

\* C4: when the remote provider fails and the local provider succeeds,
\* sendLog completes without raising and the fallback file has grown by
\* exactly one newline-terminated line, the serialized record: the severity,
\* message, data and source submitted, the timestamp as an ISO-8601 string.
C4_DegradedAppendsOneLine ==
    \A c \in Calls :
        (ValidInput(c) /\ Degraded(c)) =>
            /\ calls[c].result = "returned"
            /\ Lines(file) = <<ExpectedLine(c)>>
            /\ Unterminated(file) = <<>>

C4_Witness ==
    \E c \in Calls :
        /\ ValidInput(c) /\ Degraded(c)
        /\ calls[c].data # <<>>
        /\ calls[c].logData[1].timestamp > 0
        /\ Len(file) = 2

JsonTokens(f) == {i \in 1..Len(f) : f[i].kind = "json"}

\* C5: when the remote provider's sendLog succeeds, processLog never calls
\* the local provider for that record and adds nothing to the fallback
\* file: the file only holds entries of calls whose remote delivery failed.
C5_RemoteSuccessSkipsLocal ==
    /\ \A c \in Calls :
           RemoteSucceeded(c) =>
               /\ calls[c].trace = <<"remote">>
               /\ calls[c].io = "none"
               /\ calls[c].appended = 0
    /\ Cardinality(JsonTokens(file))
           <= Cardinality({c \in Calls : RemoteFailed(c)})

C5_Witness ==
    \E c, d \in Calls :
        /\ Done(c) /\ RemoteSucceeded(c) /\ calls[c].result = "returned"
        /\ Degraded(d)
        /\ Len(file) = 2

\* C6: for N concurrent sendLog calls that fall back to the local provider,
\* under every interleaving of their directory checks, directory creation
\* and appends, the fallback file holds exactly one complete line per record
\* saved: no line is lost, duplicated or merged with another, and once all
\* N calls have saved it holds N lines.
C6_OneLinePerDegradedCall ==
    LET lines == Lines(file)
        Saved == {c \in Calls : Degraded(c)}
    IN /\ Unterminated(file) = <<>>
       /\ Len(lines) = Cardinality(Saved)
       /\ \A i \in 1..Len(lines) :
              \E c \in Saved : lines[i] = ExpectedLine(c)
       /\ \A c \in Saved :
              Cardinality({i \in 1..Len(lines) : lines[i] = ExpectedLine(c)})
                  = Cardinality({d \in Saved : ExpectedLine(d) = ExpectedLine(c)})
       /\ (Saved = Calls) => (Len(lines) = NumCalls)

C6_Witness ==
    /\ \A c \in Calls : Degraded(c) /\ calls[c].mkdir # "none"
    /\ Len(Lines(file)) = NumCalls
    /\ \E c, d \in Calls : ExpectedLine(c) # ExpectedLine(d)

\* C7: ensureLogDirectoryExists is idempotent and safe under concurrent
\* callers: when several saveLog calls interleave their access check and
\* mkdir, each finds the directory present once it goes on to append, and
\* none fails because another caller created the directory first.
C7_EnsureDirectoryConcurrencySafe ==
    \A c \in Calls :
        /\ (calls[c].io = "append" \/ calls[c].mkdir # "none") => dirExists
        /\ LocalFailed(c) => LocalCause(c) # "EEXIST"

C7_Witness ==
    \E c, d \in Calls :
        /\ calls[c].mkdir = "created"
        /\ calls[d].mkdir = "existed"
        /\ Degraded(c) /\ Degraded(d)

\* C8 (as stated): an empty message or a severity that is not a recognized
\* value is rejected with a validation error before any I/O: no provider is
\* called for the rejected input.
C8_InvalidInputRejectedBeforeIO ==
    \A c \in Calls :
        (calls[c].pc # "idle" /\ ~ValidInput(c)) =>
            /\ calls[c].result = "raised"
            /\ calls[c].trace = <<>>
            /\ calls[c].posts = 0
            /\ calls[c].io = "none"

\* C9: within one sendLog call the providers are called in the order remote,
\* then (only after the remote failed) local: the remote provider exactly
\* once, the local provider at most once, and the remote provider never
\* after the local one, also when the local save fails.
C9_RemoteOnceThenLocalAtMostOnce ==
    \A c \in Calls :
        /\ calls[c].trace \in {<<>>, <<"remote">>, <<"remote", "local">>}
        /\ Submitted(c) => calls[c].trace[1] = "remote"
        /\ LocalCalled(c) => RemoteFailed(c)

C9_Witness ==
    \E c \in Calls :
        /\ Done(c) /\ LocalFailed(c)
        /\ calls[c].trace = <<"remote", "local">>
        /\ calls[c].result = "raised"

\* C10: when sendLog has returned or raised, the delivery outcome is
\* resolved: no I/O operation of that call is still in flight, and a call
\* that returned normally was accepted by the collector or has its entry
\* appended to the file.
C10_OutcomeResolvedOnReturn ==
    \A c \in Calls :
        (calls[c].result \in {"returned", "raised"}) =>
            /\ Done(c)
            /\ calls[c].io = "none"
            /\ (calls[c].result = "returned") =>
                   \/ RemoteSucceeded(c) /\ calls[c].appended = 0
                   \/ RemoteFailed(c) /\ calls[c].appended = 1

C10_Witness ==
    \E c, d \in Calls :
        /\ calls[c].result = "returned" /\ calls[c].appended = 1
        /\ calls[d].result = "returned" /\ RemoteSucceeded(d)

\* ================================================================ legacy
\* The first LoggingService (sendLog(data, severity)), the one
\* ErrorsInterceptor calls.  Under its specifications dirExists and file are
\* its own directory (__dirname/../../logs) and fallback file.

\* The values LOG_SERVICE_URL takes in the environment: unset, or a URL.
LogServiceUrls == {"", "http://collector"}

LegacyData == {"d1"}

LegacySeverities == {"INFO", "WARNING"}

LegacyIdleCall == [url |-> ""] @@ IdleCall

InitLegacy ==
    /\ clock = 0
    /\ appDev \in {"true", "false"}
    /\ env = UnsetEnv
    /\ dirExists \in BOOLEAN
    /\ file = <<>>
    /\ calls = [c \in Calls |-> LegacyIdleCall]
    /\ requests = [r \in Calls |-> IdleRequest]

\* The logData object sendLog builds.
LegacyLogData(data, severity, dev) ==
    [severity |-> severity,
     data |-> data,
     source |-> "configuration-service" \o (IF dev = "true" THEN "_dev" ELSE "")]

\* saveLogLocally's entry: JSON.stringify(log) and a newline.
LegacyLogEntry(log) == <<[kind |-> "json", value |-> log], NL>>

\* What the appendFile callback does with an error: it logs it.
LegacyAppendCallback(k, err) ==
    Log(k, "error", <<"Error saving log local", err>>)

\* saveLogLocally, called by sendLog, which then returns: existsSync and
\* mkdirSync run at once (mkdirSync may throw, and sendLog then rejects);
\* appendFile is issued with a callback and not waited for.
LegacySaveLogLocally(c, k) ==
    \E fault \in {"ok", "EACCES"} :
        IF dirExists
        THEN /\ dirExists' = dirExists
             /\ calls' = [calls EXCEPT ![c] =
                    Return([k EXCEPT !.trace = Append(@, "local"), !.io = "append"])]
        ELSE LET outcome == IF fault # "ok" THEN fault
                            ELSE mkdir(dirExists, [recursive |-> TRUE])
             IN IF outcome = "ok"
                THEN /\ dirExists' = TRUE
                     /\ calls' = [calls EXCEPT ![c] =
                            Return([k EXCEPT !.trace = Append(@, "local"),
                                             !.mkdir = "created",
                                             !.io = "append"])]
                ELSE /\ dirExists' = dirExists
                     /\ calls' = [calls EXCEPT ![c] =
                            Throw([k EXCEPT !.trace = Append(@, "local"),
                                            !.localErr = <<Error(<<outcome>>)>>],
                                  Error(<<outcome>>))]

\* sendLog(data, severity) up to its await, or to its end when
\* LOG_SERVICE_URL is not defined: what it does to the call and the directory.
LegacyCall(c, data, severity, url, fails) ==
    /\ calls[c].pc = "idle"
    /\ LET k0 == [calls[c] EXCEPT
                    !.type = severity, !.data = <<data>>, !.url = url,
                    !.logData = <<LegacyLogData(data, severity, appDev)>>,
                    !.remoteFails = IF Truthy(url) THEN fails ELSE 0,
                    !.result = "pending"]
       IN IF ~Truthy(url)
          THEN LegacySaveLogLocally(c,
                    Log(k0, "error", <<"LOG_SERVICE_URL is not defined">>))
          ELSE /\ calls' = [calls EXCEPT ![c] =
                        [k0 EXCEPT !.trace = Append(@, "remote"),
                                   !.posts = @ + 1,
                                   !.promise = "pending",
                                   !.io = "post",
                                   !.retriesLeft = 3,
                                   !.pc = "awaitPost"]]
               /\ dirExists' = dirExists

\* A sendLog call made by any caller.
LegacySendLog(c) ==
    /\ \E data \in LegacyData, severity \in LegacySeverities,
          url \in LogServiceUrls, fails \in {0, 1} :
            LegacyCall(c, data, severity, url, fails)
    /\ UNCHANGED <<clock, appDev, env, file, requests>>

\* The collector answers the POST and the pipe runs: retry(3) over
\* from(axios.post(...)), catchError, and the catch block's saveLogLocally.
LegacyRemoteSettled(c) ==
    /\ calls[c].io = "post"
    /\ calls[c].promise = "pending"
    /\ LET settled ==
               IF calls[c].posts <= calls[c].remoteFails
               THEN [calls[c] EXCEPT !.io = "none", !.promise = "rejected",
                                     !.promiseErr = "ECONNREFUSED"]
               ELSE [calls[c] EXCEPT !.io = "none", !.promise = "fulfilled"]
           k == RetryLoop(settled)
       IN CASE k.promise = "pending" ->
                    /\ calls' = [calls EXCEPT ![c] = k]
                    /\ dirExists' = dirExists
            [] k.promise = "fulfilled" ->
                    /\ calls' = [calls EXCEPT ![c] = Return(k)]
                    /\ dirExists' = dirExists
            [] k.promise = "rejected" ->
                    LegacySaveLogLocally(c,
                        [k EXCEPT !.remoteErr = <<Error(<<"Error sending log">>)>>])
    /\ UNCHANGED <<clock, appDev, env, file, requests>>

\* appendFile settles and its callback runs.
LegacyAppendSettled(c) ==
    /\ calls[c].io = "append"
    /\ \E fault \in {"ok", "ENOSPC"} :
        LET outcome == IF ~dirExists THEN "ENOENT" ELSE fault
            k == [calls[c] EXCEPT !.io = "none"]
        IN IF outcome = "ok"
           THEN /\ file' = appendFile(file, LegacyLogEntry(k.logData[1]))
                /\ calls' = [calls EXCEPT ![c] = [k EXCEPT !.appended = @ + 1]]
           ELSE /\ file' = file
                /\ calls' = [calls EXCEPT ![c] = LegacyAppendCallback(k, outcome)]
    /\ UNCHANGED <<clock, appDev, env, dirExists, requests>>

LegacySettle(c) ==
    \/ LegacyRemoteSettled(c)
    \/ LegacyAppendSettled(c)

NextLegacy ==
    \/ \E c \in Calls : LegacySendLog(c)
    \/ \E c \in Calls : LegacySettle(c)

SpecLegacy == InitLegacy /\ [][NextLegacy]_vars

\* C11 (as stated): the legacy sendLog never drops a record silently: when
\* remote delivery fails, or LOG_SERVICE_URL is missing, and the local append
\* fails too, the failure is surfaced to the caller of sendLog.
LegacyDropped(c) ==
    /\ Done(c)
    /\ calls[c].io = "none"
    /\ calls[c].promise # "fulfilled"
    /\ calls[c].appended = 0

C11_LegacyFailureSurfaced ==
    \A c \in Calls : LegacyDropped(c) => calls[c].result = "raised"

\* ------------------------------------------------------ claims C12 .. C16

Delivered(c) ==
    /\ RemoteSucceeded(c) /\ ~LocalCalled(c)
    /\ calls[c].appended = 0
    /\ calls[c].result = "returned"

DegradedDelivered(c) ==
    /\ RemoteFailed(c) /\ LocalCalled(c) /\ ~LocalFailed(c)
    /\ calls[c].appended = 1
    /\ calls[c].result = "returned"

Failed(c) ==
    /\ RemoteFailed(c) /\ LocalFailed(c)
    /\ calls[c].appended = 0
    /\ calls[c].result = "raised"

\* C12: every sendLog call on a valid record that has ended ended in exactly
\* one of three outcomes: delivered (remote succeeded, local untouched),
\* degraded-delivered (remote failed, local succeeded, nothing raised) or
\* failed (both failed, error raised); a call has no result before it ends.
C12_ExactlyOneOfThreeOutcomes ==
    \A c \in Calls :
        /\ (Done(c) /\ ValidInput(c)) =>
               Cardinality({o \in {"delivered", "degraded", "failed"} :
                                \/ o = "delivered" /\ Delivered(c)
                                \/ o = "degraded" /\ DegradedDelivered(c)
                                \/ o = "failed" /\ Failed(c)}) = 1
        /\ (calls[c].result \in {"returned", "raised"}) => Done(c)

C12_Witness ==
    \E c, d \in Calls :
        /\ Done(c) /\ ValidInput(c) /\ Failed(c)
        /\ Done(d) /\ ValidInput(d) /\ Delivered(d)

\* The environments a deployment may run with.
Envs ==
    [LOG_SERVICE_URL : {<<>>, <<"http://collector">>},
     LOG_MAX_RETRIES : {<<>>, <<1>>}]

InitConfig ==
    /\ clock = 0
    /\ appDev \in {"true", "false"}
    /\ env \in Envs
    /\ dirExists \in BOOLEAN
    /\ file = <<>>
    /\ calls = [c \in Calls |-> IdleCall]
    /\ requests = [r \in Calls |-> IdleRequest]

SpecConfig == InitConfig /\ [][NextInputs]_vars

\* C13 (as stated): the endpoint the remote provider posts to and the number
\* of attempts it allows are the values ConfigurationFactory.createLoggingConfig
\* supplies (LOG_SERVICE_URL, LOG_MAX_RETRIES): a record is posted to the
\* configured URL, and a delivery that keeps failing is retried exactly the
\* configured number of times.
C13_RemoteProviderUsesConfiguration ==
    \A c \in Calls :
        /\ Submitted(c) =>
               calls[c].endpoint = createLoggingConfig(ProcessEnv).logServiceUrl
        /\ (Done(c) /\ RemoteFailed(c)) =>
               calls[c].resubscribed = createLoggingConfig(ProcessEnv).maxRetries

\* What the file system may refuse: creating the directory, the append.
LocalFaults == {"EACCES", "ENOSPC"}

\* C14: saveLog fails with the local-persistence error ('No se pudo guardar
\* el log localmente' and the cause) whenever the directory cannot be
\* created or the append fails, and then no line of the record is in the
\* fallback file; a saveLog that succeeded has completed its append.
C14_SaveLogFailsOrHasAppended ==
    /\ \A c \in Calls :
        /\ (\E fault \in LocalFaults : Logged(c, "error", fault)) => LocalFailed(c)
        /\ LocalFailed(c) =>
               /\ calls[c].localErr[1].message[1] = "No se pudo guardar el log localmente"
               /\ LocalCause(c) \in LocalFaults
               /\ calls[c].appended = 0
               /\ calls[c].io = "none"
        /\ (Done(c) /\ LocalCalled(c) /\ ~LocalFailed(c)) =>
               /\ calls[c].appended = 1
               /\ calls[c].io = "none"
    /\ Len(Lines(file)) = Cardinality({c \in Calls : calls[c].appended = 1})

C14_Witness ==
    \E c, d \in Calls :
        /\ LocalFailed(c) /\ LocalCause(c) = "EACCES"
        /\ LocalFailed(d) /\ LocalCause(d) = "ENOSPC"
        /\ file = <<>>

\* C16: the record's timestamp is assigned once, when the record is built:
\* once a call has its record no step changes any field of it, the record
\* given to the local provider on fallback is field for field the one given
\* to the remote provider, and the line saved is that record's.
C16_RecordBuiltOnceAndShared ==
    /\ [](\A c \in Calls :
            /\ Len(calls[c].handed) = Len(calls[c].trace)
            /\ \A i \in 1..Len(calls[c].handed) :
                   calls[c].handed[i] = calls[c].logData[1]
            /\ Degraded(c) =>
                   \E i \in 1..Len(Lines(file)) :
                       Lines(file)[i] =
                           <<[kind |-> "json", value |-> stringify(calls[c].handed[1])]>>)
    /\ [][\A c \in Calls :
            Submitted(c) => calls'[c].logData = calls[c].logData]_vars

C16_Witness ==
    \E c \in Calls :
        /\ Degraded(c)
        /\ Len(calls[c].handed) = 2
        /\ calls[c].handed[2].timestamp < clock
        /\ calls[c].data # <<>>

\* ---------------------------------------------------------- LogDataBuilder
\* The builder on its own: any with* calls, then build.

\* What a builder may hold when build is called; "undefined" is a field no
\* with* call set.
BuilderSeverities == {"undefined", "INFO", "ERROR"}

BuilderMessages == {"undefined", "", "m1"}

BuilderSources == {"undefined", "", "svc"}

BuilderIdleCall == [source |-> "undefined"] @@ IdleCall

InitBuilder ==
    /\ clock = 0
    /\ appDev \in {"true", "false"}
    /\ env = UnsetEnv
    /\ dirExists \in BOOLEAN
    /\ file = <<>>
    /\ calls = [c \in Calls |-> BuilderIdleCall]
    /\ requests = [r \in Calls |-> IdleRequest]

\* LogDataBuilder.create().with*(...).build().
BuilderBuild(c) ==
    /\ NoCallYet
    /\ \E severity \in BuilderSeverities, message \in BuilderMessages,
          data \in DataArgs, source \in BuilderSources :
        LET k0 == [calls[c] EXCEPT !.type = severity, !.message = message,
                                   !.data = data, !.source = source]
        IN calls' = [calls EXCEPT ![c] =
            IF buildThrows(severity, message)
            THEN Throw(k0, Error(<<"Severity y message son campos obligatorios">>))
            ELSE Return([k0 EXCEPT
                    !.logData = <<build(severity, message, data, source, clock)>>])]
    /\ UNCHANGED <<clock, appDev, env, dirExists, file, requests>>

NextBuilder ==
    \/ Tick
    \/ \E c \in Calls : BuilderBuild(c)

SpecBuilder == InitBuilder /\ [][NextBuilder]_vars

\* A valid pair: a severity of the enum and a message that was set and is
\* not empty.
ValidPair(c) ==
    calls[c].type \in LogSeverity /\ calls[c].message \notin {"undefined", ""}

\* C15: for every valid (severity, message) pair build returns a record with
\* that severity and that message, the time of the build as its timestamp,
\* the data that was set or the empty mapping when none was, and the source
\* that was set or 'unknown' when none was.
C15_BuildKeepsFieldsAndDefaults ==
    \A c \in Calls :
        (Done(c) /\ ValidPair(c)) =>
            /\ calls[c].result = "returned"
            /\ Len(calls[c].logData) = 1
            /\ LET rec == calls[c].logData[1]
               IN /\ rec.severity = calls[c].type
                  /\ rec.message = calls[c].message
                  /\ rec.timestamp \in 0..clock
                  /\ rec.data = IF calls[c].data = <<>> THEN {} ELSE calls[c].data[1]
                  /\ rec.source = IF calls[c].source \in {"undefined", ""}
                                  THEN "unknown" ELSE calls[c].source

C15_Witness ==
    \E c \in Calls :
        /\ Done(c) /\ ValidPair(c)
        /\ calls[c].data = <<>>
        /\ calls[c].source = "undefined"
        /\ calls[c].logData[1].source = "unknown"
        /\ calls[c].logData[1].timestamp = MaxClock

\* ======================================================== ErrorsInterceptor
\* JavaScript values as tagged records: t is what typeof / Array.isArray
\* tell apart; the value sits in a field of its own per type, an object's
\* maps its keys to values.
Str(v) == [t |-> "string", s |-> v]

Num(v) == [t |-> "number", n |-> v]

Arr(v) == [t |-> "array", a |-> v]

Obj(v) == [t |-> "object", o |-> v]

\* key in object.
HasKey(obj, key) == key \in DOMAIN obj.o

\* An HttpException (or subclass `name`) built with `response` and `status`.
HttpException(name, response, status) ==
    [kind |-> "HttpException", name |-> name, response |-> response, status |-> status]

\* What a handler may throw: HttpExceptions over every shape of
\* getResponse() and several statuses, an Error with a stack, a string.
Errs ==
    {HttpException("NotFoundException", Str("Not here"), 404),
     HttpException("BadRequestException",
        Obj([message |-> Arr(<<Str("email must be an email")>>),
             error |-> Str("Bad Request"), statusCode |-> Num(400)]), 400),
     HttpException("BadRequestException",
        Obj([message |-> Str("bad input"), details |-> Arr(<<Str("name")>>)]), 400),
     HttpException("ForbiddenException", Obj([error |-> Str("Forbidden")]), 403),
     HttpException("InternalServerErrorException", Str("db down"), 500),
     HttpException("ServiceUnavailableException",
        Obj([message |-> Str("down"), details |-> Str("none")]), 503),
     [kind |-> "Error", stack |-> "Error: boom at handler"],
     [kind |-> "string", value |-> "oops"]}

Paths == {"/users"}

\* uuidv4(): an identifier no other request gets.
uuidv4(r) == "uuid-" \o ToString(r)

\* The block under catchError up to the logData literal: status, error,
\* message, details and stackTrace as the code resolves them.
Resolve(err) ==
    LET defaults == [status |-> 500,
                     error |-> "Internal Server Error",
                     message |-> "An unexpected error occurred. Please try again later.",
                     details |-> <<>>,
                     stack |-> <<>>]
    IN IF err.kind = "HttpException"
       THEN LET responseData == err.response
                named == [defaults EXCEPT !.status = err.status, !.error = err.name]
            IN IF responseData.t = "string"
               THEN [named EXCEPT !.message = responseData.s]
               ELSE IF responseData.t = "object" /\ HasKey(responseData, "message")
               THEN [named EXCEPT
                        !.message = IF responseData.o.message.t = "string"
                                    THEN responseData.o.message.s
                                    ELSE @,
                        !.details = IF HasKey(responseData, "details")
                                       /\ responseData.o.details.t = "array"
                                    THEN responseData.o.details.a
                                    ELSE <<>>]
               ELSE named
       ELSE IF err.kind = "Error"
       THEN [defaults EXCEPT !.stack = <<err.stack>>]
       ELSE defaults

\* Fault variant: every logged record gets the trace id.
LogTraceIdAlways(status, traceId) == <<traceId>>

\* logData.trace_id: <<>> is undefined.
LogTraceId(status, traceId) == IF status = 500 THEN <<traceId>> ELSE <<>>

\* Fault variant: every server error (5xx) is logged as ERROR.
SeverityForServerErrors(status) == IF status >= 500 THEN "ERROR" ELSE "WARNING"

\* The severity passed to sendLog.
SeverityFor(status) == IF status = 500 THEN "ERROR" ELSE "WARNING"

\* The error thrown on: the exception class, its status and its response.
Rethrown(res, timestamp, path, traceId) ==
    IF res.status = 500
    THEN [kind |-> "InternalServerErrorException",
          status |-> 500,
          response |-> [status |-> res.status, error |-> res.error,
                        message |-> res.message, timestamp |-> timestamp,
                        path |-> path, trace_id |-> traceId]]
    ELSE [kind |-> "HttpException",
          status |-> res.status,
          response |-> [status |-> res.status, error |-> res.error,
                        message |-> res.message, details |-> res.details,
                        timestamp |-> timestamp, path |-> path]]

NoRequestYet == \A r \in Calls : requests[r].pc = "idle"

\* The handler throws err and catchError's callback runs: it resolves the
\* fields, calls loggingService.sendLog without waiting for it (the call
\* runs up to its own await), and returns the error to throw.
InterceptError(r) ==
    /\ NoRequestYet
    /\ \E err \in Errs, path \in Paths, url \in LogServiceUrls, fails \in {0, 1} :
        LET timestamp == toISOString(clock)
            traceId == uuidv4(r)
            res == Resolve(err)
            logData == [status |-> res.status, error |-> res.error,
                        message |-> res.message, details |-> res.details,
                        timestamp |-> timestamp, path |-> path,
                        trace_id |-> LogTraceId(res.status, traceId),
                        stack |-> res.stack]
            severity == SeverityFor(res.status)
        IN /\ LegacyCall(r, logData, severity, url, fails)
           /\ requests' = [requests EXCEPT ![r] =
                  [@ EXCEPT !.pc = "thrown", !.path = path, !.err = <<err>>,
                            !.traceId = traceId,
                            !.sendLog = Append(@, [data |-> logData,
                                                   severity |-> severity]),
                            !.client = <<Rethrown(res, timestamp, path, traceId)>>]]
    /\ UNCHANGED <<clock, appDev, env, file>>

\* The handler returns a value: catchError lets it through.
InterceptValue(r) ==
    /\ NoRequestYet
    /\ \E path \in Paths :
        requests' = [requests EXCEPT ![r] =
            [@ EXCEPT !.pc = "emitted", !.path = path, !.emitted = <<"value">>]]
    /\ UNCHANGED <<clock, appDev, env, dirExists, file, calls>>

NextInterceptor ==
    \/ Tick
    \/ \E r \in Calls : InterceptError(r)
    \/ \E r \in Calls : InterceptValue(r)
    \/ \E c \in Calls : LegacySettle(c)

SpecInterceptor == InitLegacy /\ [][NextInterceptor]_vars

Intercepted(r) == requests[r].err # <<>>

\* C17: for every intercepted error whose resolved status is 500 the error
\* sent to the client contains a trace_id and the logged record contains the
\* same one; for every other status neither carries a trace_id.
C17_TraceIdIffStatus500 ==
    \A r \in Calls :
        Intercepted(r) =>
            LET client == requests[r].client[1].response
                logged == requests[r].sendLog[1].data
            IN IF logged.status = 500
               THEN /\ "trace_id" \in DOMAIN client
                    /\ client.trace_id = requests[r].traceId
                    /\ logged.trace_id = <<client.trace_id>>
                    /\ client.status = 500
               ELSE /\ "trace_id" \notin DOMAIN client
                    /\ logged.trace_id = <<>>
                    /\ client.status = logged.status

C17_Witness ==
    \E r \in Calls :
        /\ Intercepted(r)
        /\ requests[r].err[1].kind = "HttpException"
        /\ requests[r].err[1].status = 503
        /\ requests[r].sendLog[1].data.trace_id = <<>>

\* C18 (as stated): for an HttpException with a status other than 500 the
\* error forwarded to the client carries the exception's status and its
\* original message, for every shape of getResponse(): a string, an object
\* with a string message, an object with a non-string message (an array).
\* (An object without message holds no message to compare: status only.)
C18_StatusAndMessagePreserved ==
    \A r \in Calls :
        (/\ Intercepted(r)
         /\ requests[r].err[1].kind = "HttpException"
         /\ requests[r].err[1].status # 500) =>
            LET err == requests[r].err[1]
                client == requests[r].client[1]
            IN /\ client.status = err.status
               /\ client.response.status = err.status
               /\ err.response.t = "string" =>
                      client.response.message = err.response.s
               /\ (err.response.t = "object" /\ HasKey(err.response, "message")) =>
                      /\ err.response.o.message.t = "string"
                      /\ client.response.message = err.response.o.message.s

\* C19: sendLog is called exactly once per intercepted error, with 'ERROR'
\* when the resolved status is 500 and 'WARNING' for every other status, and
\* an error is then thrown on to the client: no value is emitted in its
\* place.  A value that went through is not logged.
C19_LoggedOnceThenRethrown ==
    \A r \in Calls :
        /\ Intercepted(r) =>
               /\ Len(requests[r].sendLog) = 1
               /\ requests[r].sendLog[1].severity =
                      IF requests[r].sendLog[1].data.status = 500
                      THEN "ERROR" ELSE "WARNING"
               /\ calls[r].result # "none"
               /\ calls[r].type = requests[r].sendLog[1].severity
               /\ calls[r].data = <<requests[r].sendLog[1].data>>
               /\ requests[r].pc = "thrown"
               /\ Len(requests[r].client) = 1
               /\ requests[r].emitted = <<>>
        /\ ~Intercepted(r) =>
               /\ requests[r].sendLog = <<>>
               /\ requests[r].client = <<>>
               /\ calls[r].result = "none"

C19_Witness ==
    \E r \in Calls :
        /\ Intercepted(r)
        /\ requests[r].err[1].kind = "Error"
        /\ requests[r].sendLog[1].severity = "ERROR"
        /\ requests[r].client[1].kind = "InternalServerErrorException"
        /\ Done(r) /\ calls[r].io = "none"

\* ====================================================== ResponseInterceptor

Null == [t |-> "null"]

Undefined == [t |-> "undefined"]

Bool(v) == [t |-> "boolean", b |-> v]

\* key in data, for data a non-null object (an array has no such keys).
In(key, data) == data.t = "object" /\ key \in DOMAIN data.o

\* JavaScript truthiness of a tagged value.
JsTruthy(x) ==
    CASE x.t \in {"null", "undefined"} -> FALSE
      [] x.t = "boolean" -> x.b
      [] x.t = "string" -> x.s # ""
      [] x.t = "number" -> x.n # 0
      [] OTHER -> TRUE

\* Fault variant: only an envelope with an error property is recognised.
isApiResponseWithError(data) ==
    /\ In("ok", data) /\ data.o.ok.t = "boolean"
    /\ In("status", data) /\ data.o.status.t = "number"
    /\ In("message", data) /\ data.o.message.t = "string"
    /\ In("timestamp", data) /\ data.o.timestamp.t = "string"
    /\ In("error", data)

isApiResponse(data) ==
    /\ In("ok", data) /\ data.o.ok.t = "boolean"
    /\ In("status", data) /\ data.o.status.t = "number"
    /\ In("message", data) /\ data.o.message.t = "string"
    /\ In("timestamp", data) /\ data.o.timestamp.t = "string"

\* Express 5 response.status(code), the adapter @nestjs/platform-express 11
\* runs on: a code outside 100..999 throws and sets nothing.
responseStatus(statusCode, code) ==
    IF code >= 100 /\ code <= 999
    THEN [threw |-> <<>>, statusCode |-> code]
    ELSE [threw |-> <<"RangeError">>, statusCode |-> statusCode]

syncHttpStatusCode(apiStatus, statusCode) ==
    IF statusCode # apiStatus
    THEN responseStatus(statusCode, apiStatus)
    ELSE [threw |-> <<>>, statusCode |-> statusCode]

\* Fault variant: the code is taken as it is.
getValidHttpStatusUnchecked(statusCode, fallback) == statusCode

getValidHttpStatus(statusCode, fallback) ==
    IF statusCode >= 100 /\ statusCode <= 599 THEN statusCode ELSE fallback

getSuccessMessageByStatus(status, config) ==
    CASE status = 200 -> "Operación exitosa"
      [] status = 201 -> "Recurso creado exitosamente"
      [] status = 202 -> "Solicitud aceptada"
      [] status = 204 -> "Operación completada sin contenido"
      [] status = 206 -> "Contenido parcial obtenido"
      [] OTHER -> config.defaultSuccessMessage

\* ResponseHelper.success(body, { message, status }).
success(body, message, status, now) ==
    Obj([ok |-> Bool(TRUE), status |-> Num(status), message |-> Str(message),
         body |-> body, timestamp |-> Str(toISOString(now))])

\* ResponseHelper.error(message, { status, body }): an undefined body becomes
\* null, no error option gives error: null.
error(message, status, body, now) ==
    Obj([ok |-> Bool(FALSE), status |-> Num(status),
         message |-> Str(IF message # "" THEN message ELSE "Error interno del servidor"),
         body |-> IF body = Undefined THEN Null ELSE body,
         error |-> Null,
         timestamp |-> Str(toISOString(now))])

\* customMessage is <<>> when not given (or undefined), else <<message>>.
createSuccessResponse(data, statusCode, customMessage, now, config) ==
    LET httpStatus == getValidHttpStatus(statusCode, 200)
        message == IF customMessage # <<>> THEN customMessage[1]
                   ELSE getSuccessMessageByStatus(httpStatus, config)
    IN success(data, message, httpStatus, now)

hasSpecialResponseFormat(data) ==
    /\ data.t \in {"object", "array"}
    /\ \/ In("success", data) /\ data.o.success.t = "boolean"
       \/ In("error", data) /\ data.o.error.t = "boolean"
       \/ In("result", data)
       \/ In("data", data) /\ In("meta", data)

handleSuccessFormat(data, statusCode, now, config) ==
    LET message == IF In("message", data) /\ data.o.message.t = "string"
                   THEN <<data.o.message.s>> ELSE <<>>
    IN IF JsTruthy(data.o.success)
       THEN createSuccessResponse(
                IF In("data", data) /\ data.o.data.t \notin {"null", "undefined"}
                THEN data.o.data ELSE data,
                statusCode, message, now, config)
       ELSE error(IF message # <<>> THEN message[1] ELSE "Operación fallida",
                  getValidHttpStatus(statusCode, 400),
                  IF In("data", data) THEN data.o.data ELSE Undefined,
                  now)

handlePaginatedFormat(data, statusCode, now, config) ==
    createSuccessResponse(data, statusCode,
                          <<"Datos paginados obtenidos exitosamente">>, now, config)

handleResultFormat(data, statusCode, now, config) ==
    createSuccessResponse(data.o.result, statusCode, <<>>, now, config)

\* Fault variant: the result format is tested first, the success flag last.
handleSpecialFormatResultFirst(data, statusCode, now, config) ==
    IF In("result", data)
    THEN handleResultFormat(data, statusCode, now, config)
    ELSE IF In("data", data) /\ In("meta", data)
    THEN handlePaginatedFormat(data, statusCode, now, config)
    ELSE IF In("success", data)
    THEN handleSuccessFormat(data, statusCode, now, config)
    ELSE createSuccessResponse(data, statusCode, <<>>, now, config)

handleSpecialFormat(data, statusCode, now, config) ==
    IF In("success", data)
    THEN handleSuccessFormat(data, statusCode, now, config)
    ELSE IF In("data", data) /\ In("meta", data)
    THEN handlePaginatedFormat(data, statusCode, now, config)
    ELSE IF In("result", data)
    THEN handleResultFormat(data, statusCode, now, config)
    ELSE createSuccessResponse(data, statusCode, <<>>, now, config)

\* transformResponse(data, response): what it throws (<<>> when nothing),
\* what it returns, and response.statusCode afterwards.
transformResponse(data, statusCode, now, config) ==
    LET Returns(value) == [threw |-> <<>>, value |-> <<value>>, statusCode |-> statusCode]
    IN IF isApiResponse(data)
       THEN LET synced == syncHttpStatusCode(data.o.status.n, statusCode)
            IN IF synced.threw # <<>>
               THEN [threw |-> synced.threw, value |-> <<>>,
                     statusCode |-> synced.statusCode]
               ELSE [threw |-> <<>>, value |-> <<data>>,
                     statusCode |-> synced.statusCode]
       ELSE IF data.t \in {"null", "undefined"}
       THEN Returns(createSuccessResponse(Null, statusCode, <<>>, now, config))
       ELSE IF data.t = "string" /\ config.transformStrings
       THEN Returns(createSuccessResponse(Null, statusCode, <<data.s>>, now, config))
       ELSE IF data.t = "array" /\ Len(data.a) = 0
       THEN Returns(createSuccessResponse(data, statusCode,
                        <<"Lista obtenida exitosamente (vacía)">>, now, config))
       ELSE IF hasSpecialResponseFormat(data)
       THEN Returns(handleSpecialFormat(data, statusCode, now, config))
       ELSE Returns(createSuccessResponse(data, statusCode, <<>>, now, config))

\* An envelope a handler built itself, with its own timestamp.
Envelope(ok, status, message) ==
    Obj([ok |-> Bool(ok), status |-> Num(status), message |-> Str(message),
         body |-> Null, timestamp |-> Str("2024-01-01T00:00:00.000Z")])

\* What a handler may return.
HandlerResults ==
    {Envelope(TRUE, 201, "created"),
     Envelope(FALSE, 404, "missing"),
     Envelope(TRUE, 200, "fine"),
     Envelope(TRUE, 0, "no status"),
     Envelope(FALSE, 700, "own code"),
     Obj([ok |-> Bool(TRUE), status |-> Str("200"), message |-> Str("almost"),
          timestamp |-> Str("2024-01-01T00:00:00.000Z")]),
     Null, Undefined, Str("hola"),
     Arr(<<>>), Arr(<<Num(1)>>),
     Obj([id |-> Num(1)]),
     Obj([success |-> Bool(TRUE), data |-> Obj([id |-> Num(1)]), message |-> Str("hecho")]),
     Obj([success |-> Bool(TRUE)]),
     Obj([success |-> Bool(FALSE), message |-> Str("mal")]),
     Obj([success |-> Bool(FALSE), data |-> Str("detalle")]),
     Obj([error |-> Bool(TRUE), message |-> Str("roto")]),
     Obj([result |-> Num(7)]),
     Obj([data |-> Arr(<<Num(1)>>), meta |-> Obj([page |-> Num(1)])]),
     Obj([success |-> Bool(TRUE), data |-> Null, meta |-> Obj([page |-> Num(1)])]),
     Obj([success |-> Str("yes"), result |-> Num(7)]),
     Obj([data |-> Arr(<<Num(1)>>), meta |-> Obj([page |-> Num(1)]), result |-> Num(7)]),
     Obj([error |-> Bool(FALSE), result |-> Num(7)])}

\* response.statusCode when the handler's value arrives.
StatusCodes == {200, 201, 404, 700}

\* The interceptor's configuration: the defaults with any override.
InterceptorConfigs ==
    [enableLogging : BOOLEAN,
     defaultSuccessMessage : {"Operación exitosa"},
     transformStrings : BOOLEAN]

\* logResponse: the level and the parts of the message.
logResponse(path, apiResponse) ==
    IF apiResponse.o.ok.b
    THEN [level |-> "log", status |-> apiResponse.o.status.n, message |-> <<>>]
    ELSE [level |-> "warn", status |-> apiResponse.o.status.n,
          message |-> <<apiResponse.o.message.s>>]

\* The handler returns data and the map callback runs.
InterceptResult(r) ==
    /\ NoRequestYet
    /\ \E data \in HandlerResults, statusCode \in StatusCodes,
          config \in InterceptorConfigs, path \in Paths :
        LET t == transformResponse(data, statusCode, clock, config)
            given == <<[statusCode |-> statusCode, config |-> config, now |-> clock]>>
        IN requests' = [requests EXCEPT ![r] =
            IF t.threw # <<>>
            THEN [@ EXCEPT !.pc = "thrown", !.path = path, !.data = <<data>>,
                           !.given = given,
                           !.statusCode = t.statusCode, !.raised = t.threw]
            ELSE [@ EXCEPT !.pc = "emitted", !.path = path, !.data = <<data>>,
                           !.given = given,
                           !.statusCode = t.statusCode, !.emitted = t.value,
                           !.log = IF config.enableLogging
                                   THEN <<logResponse(path, t.value[1])>>
                                   ELSE <<>>]]
    /\ UNCHANGED <<clock, appDev, env, dirExists, file, calls>>

\* The emitted value reaches a ResponseInterceptor again (one registered
\* globally and one on the controller): transformResponse runs on it.
InterceptAgain(r) ==
    /\ requests[r].pc = "emitted"
    /\ requests[r].data # <<>>
    /\ requests[r].again = <<>>
    /\ \E statusCode \in StatusCodes \cup {requests[r].statusCode},
          config \in InterceptorConfigs :
        LET t == transformResponse(requests[r].emitted[1], statusCode, clock, config)
        IN requests' = [requests EXCEPT ![r] =
            [@ EXCEPT !.statusCode = t.statusCode,
                      !.again = <<[threw |-> t.threw, value |-> t.value,
                                   now |-> clock]>>]]
    /\ UNCHANGED <<clock, appDev, env, dirExists, file, calls>>

NextResponse ==
    \/ Tick
    \/ \E r \in Calls : InterceptResult(r)
    \/ \E r \in Calls : InterceptAgain(r)

SpecResponse == Init /\ [][NextResponse]_vars

Handled(r) == requests[r].data # <<>>

\* C20 (as stated): when the handler's result satisfies isApiResponse
\* (boolean ok, numeric status, string message, string timestamp),
\* transformResponse returns that same object with no field changed, and the
\* HTTP response's status code then equals the object's status.
C20_EnvelopePreservedAndStatusSynced ==
    \A r \in Calls :
        (Handled(r) /\ isApiResponse(requests[r].data[1])) =>
            /\ requests[r].pc = "emitted"
            /\ requests[r].emitted = requests[r].data
            /\ requests[r].statusCode = requests[r].data[1].o.status.n

\* ------------------------------------------------------ claims C21 .. C25

Emitted(r) == Handled(r) /\ requests[r].pc = "emitted"

\* The emitted envelope is one the interceptor built: the handler's result
\* was not an envelope already.
Built(r) == Emitted(r) /\ ~isApiResponse(requests[r].data[1])

C22_StatusMatchesOutcome ==
    \A r \in Calls :
        Built(r) =>
            LET envelope == requests[r].emitted[1].o
            IN /\ (~envelope.ok.b) => envelope.status.n >= 400
               /\ envelope.ok.b => envelope.status.n < 400

\* The class of a handler result by the stated precedence, first match wins.
ClassOf(data, config) ==
    CASE isApiResponse(data) -> "envelope"
      [] data.t \in {"null", "undefined"} -> "nullish"
      [] data.t = "string" /\ config.transformStrings -> "string"
      [] data.t = "array" /\ data.a = <<>> -> "emptyArray"
      [] data.t = "object" /\ "success" \in DOMAIN data.o
            /\ hasSpecialResponseFormat(data) -> "successFlag"
      [] data.t = "object" /\ {"data", "meta"} \subseteq DOMAIN data.o -> "paginated"
      [] data.t = "object" /\ "result" \in DOMAIN data.o -> "result"
      [] OTHER -> "general"

\* C23: transformResponse classifies the handler result by a fixed
\* precedence, first match wins: envelope (returned as is); null/undefined
\* (success, body null); string with transformStrings (success, body null,
\* message the string); empty array (success, body the array, the 'empty
\* list' message); special format, success flag before paginated before
\* result; otherwise success with the data as body, which is also what a
\* string gets when transformStrings is off.
C23_ClassifiedByPrecedence ==
    \A r \in Calls :
        Emitted(r) =>
            LET data == requests[r].data[1]
                class == ClassOf(data, requests[r].given[1].config)
                out == requests[r].emitted[1].o
            IN CASE class = "envelope" -> requests[r].emitted[1] = data
                 [] class = "nullish" -> out.ok.b /\ out.body = Null
                 [] class = "string" ->
                        out.ok.b /\ out.body = Null /\ out.message.s = data.s
                 [] class = "emptyArray" ->
                        /\ out.ok.b /\ out.body = data
                        /\ out.message.s = "Lista obtenida exitosamente (vacía)"
                 [] class = "successFlag" ->
                        IF JsTruthy(data.o.success)
                        THEN /\ out.ok.b
                             /\ \/ out.body = data
                                \/ In("data", data) /\ out.body = data.o.data
                             /\ out.message.s # "Datos paginados obtenidos exitosamente"
                        ELSE ~out.ok.b
                 [] class = "paginated" ->
                        /\ out.ok.b /\ out.body = data
                        /\ out.message.s = "Datos paginados obtenidos exitosamente"
                 [] class = "result" -> out.ok.b /\ out.body = data.o.result
                 [] class = "general" -> out.ok.b /\ out.body = data

C23_Witness ==
    \E r \in Calls :
        /\ Emitted(r)
        /\ LET data == requests[r].data[1]
           IN /\ data.t = "object"
              /\ {"success", "result"} \subseteq DOMAIN data.o
              /\ requests[r].emitted[1].o.body = data

\* The handler's result signals failure through a boolean error flag only.
ErrorFlagOnly(data) ==
    /\ In("error", data) /\ data.o.error = Bool(TRUE)
    /\ ~In("success", data)
    /\ ~In("result", data)
    /\ ~(In("data", data) /\ In("meta", data))
    /\ ~isApiResponse(data)

\* C24 (as stated): a handler result that signals failure through a boolean
\* error flag (error = true and no success, result or data+meta property) is
\* never turned into an envelope with ok = true.
C24_ErrorFlagNeverOk ==
    \A r \in Calls :
        (Emitted(r) /\ ErrorFlagOnly(requests[r].data[1])) =>
            ~requests[r].emitted[1].o.ok.b

\* C25: transformResponse is idempotent: applied to the envelope it produced
\* from a handler result, under any response status, it returns that
\* envelope unchanged (same ok, status, message, body and timestamp).
C25_TransformIdempotent ==
    \A r \in Calls :
        (requests[r].again # <<>>) =>
            /\ requests[r].again[1].threw = <<>>
            /\ requests[r].again[1].value = requests[r].emitted

C25_Witness ==
    \E r \in Calls :
        /\ Built(r)
        /\ requests[r].again # <<>>
        /\ requests[r].again[1].now > requests[r].given[1].now
        /\ requests[r].again[1].value = requests[r].emitted
        /\ requests[r].emitted[1].o.ok.b

====
